---- MODULE Spec2Model ----
(***************************************************************************)
(* portapps: command execution (ExecCmd) and registry export / import      *)
(* with a timestamped backup (ExportRegKey, ImportRegKey).                  *)
(*                                                                         *)
(* Go strings are sequences of one-character strings.  The program is one  *)
(* thread: main calls ExecCmd, ExportRegKey or ImportRegKey, one call at a  *)
(* time; the child process, the wall clock and the file system are the     *)
(* environment and move on their own.                                      *)
(***************************************************************************)
EXTENDS Integers, Sequences, FiniteSets, TLC

(* ------------------------------ bounds --------------------------------- *)
\* top-level calls main makes in one run
MaxCalls == 2
\* writes all children together make to their streams in one run
MaxWrites == 2
\* clock ticks in one run
MaxClock == 2
\* clock ticks per second (time.Now has sub-second resolution)
TicksPerSecond == 2
\* largest exit status a child ends with
MaxExit == 1
\* second of the day at which the run starts (09:59:59)
StartSecond == 35999
\* changes other programs make to the file system in one run
MaxFsOps == 1

(* ------------------------------ strings -------------------------------- *)
sReg == <<"r", "e", "g">>
sExport == <<"e", "x", "p", "o", "r", "t">>
sImport == <<"i", "m", "p", "o", "r", "t">>
sYes == <<"/", "y">>
sRegArch == <<"/", "r", "e", "g", ":">>
sExecFormat == <<"E", "x", "e", "c", " ", "%", "s", " ", "%", "s">>
sDot == <<".">>
sSpace == <<" ">>
sCannotExport == <<"C", "a", "n", "n", "o", "t", " ", "e", "x", "p", "o", "r", "t", " ", "r", "e", "g", "i", "s", "t", "r", "y", " ", "k", "e", "y", " ", "'", "%", "s", "'", ":", " ", "%", "v">>
sCannotImport == <<"C", "a", "n", "n", "o", "t", " ", "i", "m", "p", "o", "r", "t", " ", "r", "e", "g", "i", "s", "t", "r", "y", " ", "f", "i", "l", "e", " ", "'", "%", "s", "'", ":", " ", "%", "v">>
sNewline == <<"\n">>

\* characters unicode.IsSpace accepts (of the ASCII ones, all but \v, which
\* has no TLA+ string escape)
SpaceChars == {" ", "\t", "\n", "\r", "\f"}

IsSpace(c) == c \in SpaceChars

RECURSIVE TrimLeft(_)
TrimLeft(s) ==
    IF s = <<>> THEN <<>>
    ELSE IF IsSpace(Head(s)) THEN TrimLeft(Tail(s)) ELSE s

RECURSIVE TrimRight(_)
TrimRight(s) ==
    IF s = <<>> THEN <<>>
    ELSE IF IsSpace(s[Len(s)]) THEN TrimRight(SubSeq(s, 1, Len(s) - 1)) ELSE s

\* mutant: only the leading white space is removed
TrimSpaceLeftOnly(s) == TrimLeft(s)

\* strings.TrimSpace
TrimSpace(s) == TrimRight(TrimLeft(s))

\* strings.Join
RECURSIVE Join(_, _)
Join(elems, sep) ==
    IF elems = <<>> THEN <<>>
    ELSE IF Len(elems) = 1 THEN elems[1]
    ELSE elems[1] \o sep \o Join(Tail(elems), sep)

DigitChars == <<"0", "1", "2", "3", "4", "5", "6", "7", "8", "9">>

DigitChar(d) == DigitChars[d + 1]

\* fmt.Sprintf("%d", n) for an unsigned n
RECURSIVE Decimal(_)
Decimal(n) ==
    IF n < 10 THEN <<DigitChar(n)>>
    ELSE Decimal(n \div 10) \o <<DigitChar(n % 10)>>

\* two decimal digits, zero padded
TwoDigits(n) == <<DigitChar((n \div 10) % 10), DigitChar(n % 10)>>

\* the second of the day the clock shows at tick t
SecondOfDay(t) == StartSecond + (t \div TicksPerSecond)

\* time.Time.Format("20060102150405") of the clock at tick t: the run stays
\* within 2018-01-01, so only the time of day moves
Format(t) ==
    <<"2", "0", "1", "8">> \o <<"0", "1">> \o <<"0", "1">>
        \o TwoDigits(SecondOfDay(t) \div 3600)
        \o TwoDigits((SecondOfDay(t) \div 60) % 60)
        \o TwoDigits(SecondOfDay(t) % 60)

(* ------------------------------ inputs --------------------------------- *)
\* the RegExportImport values main passes
Regs ==
    { [Key |-> <<"K">>, Arch |-> <<"3", "2">>, File |-> <<"f">>],
      [Key |-> <<"L">>, Arch |-> <<"6", "4">>, File |-> <<"g">>] }

Files == { reg.File : reg \in Regs }

\* the CmdOptions main passes to ExecCmd directly
CmdOpts ==
    { [Command |-> <<"a">>, Args |-> <<>>, WorkingDir |-> <<>>, HideWindow |-> FALSE],
      [Command |-> <<"b">>, Args |-> <<<<"x">>, <<"y">>>>, WorkingDir |-> <<"d">>,
       HideWindow |-> TRUE] }

\* what a child writes to a stream in one write
OutChunks == { <<"\n">>, <<"a", " ", "b">> }

\* the errors command.Start returns
Nil == [isNil |-> TRUE, msg |-> <<>>]
LaunchErrors == { [isNil |-> FALSE, msg |-> <<"n", "f">>] }

NoChild == [state |-> "none", out |-> <<>>, err |-> <<>>, code |-> 0]

NoCall == [fn |-> "none", arg |-> <<>>, stat |-> "none"]

(* ------------------------------- state --------------------------------- *)
VARIABLES
    pc,             \* where the thread is: idle, start, wait, ret, stat, exited
    stack,          \* frames of ExportRegKey / ImportRegKey above main
    options,        \* ExecCmd's parameter
    result,         \* ExecCmd's result
    err,            \* ExecCmd's error
    commandStdout,  \* the buffer the child's stdout is captured in
    commandStderr,  \* the buffer the child's stderr is captured in
    child,          \* the child process of the current ExecCmd
    clock,          \* the wall clock, in ticks
    files,          \* the files os.Stat succeeds on
    log,            \* the logger calls made since main's current call began
    cmds,           \* one record per ExecCmd call of main's current call
    call,           \* main's current call, and what its os.Stat found
    backups,        \* the backup files earlier ImportRegKey calls exported to
    ncalls,         \* top-level calls made so far
    nout,           \* writes children have made so far
    nfs             \* file system changes so far

vars == <<pc, stack, options, result, err, commandStdout, commandStderr, child,
          clock, files, log, cmds, call, backups, ncalls, nout, nfs>>

ZeroOptions == [Command |-> <<>>, Args |-> <<>>, WorkingDir |-> <<>>, HideWindow |-> FALSE]

ZeroResult == [Options |-> ZeroOptions, ExitCode |-> 0, Stdout |-> <<>>, Stderr |-> <<>>]

Init ==
    /\ pc = "idle"
    /\ stack = <<>>
    /\ options = ZeroOptions
    /\ result = ZeroResult
    /\ err = Nil
    /\ commandStdout = <<>>
    /\ commandStderr = <<>>
    /\ child = NoChild
    /\ clock = 0
    /\ files \in SUBSET Files
    /\ log = <<>>
    /\ cmds = <<>>
    /\ call = NoCall
    /\ backups = {}
    /\ ncalls = 0
    /\ nout = 0
    /\ nfs = 0

Last(s) == s[Len(s)]

Pop(s) == SubSeq(s, 1, Len(s) - 1)

(* ------------------------------ logging -------------------------------- *)
\* a call of Log.Infof, Log.Errorf or Log.Fatalf with its format and arguments
Entry(level, format, args) == [level |-> level, format |-> format, args |-> args]

\* Log.Infof("Exec %s %s", options.Command, strings.Join(options.Args, " "))
ExecLogEntry(o) == Entry("info", sExecFormat, <<o.Command, Join(o.Args, sSpace)>>)

\* the Log.Errorf calls made for a result with a non-zero exit code: the
\* decimal code, then the captured stderr and a newline, each as the format
ExitCodeEntries(r) ==
    IF r.ExitCode # 0
    THEN <<Entry("error", Decimal(r.ExitCode), <<>>)>>
             \o (IF Len(r.Stderr) > 0
                 THEN <<Entry("error", r.Stderr \o sNewline, <<>>)>>
                 ELSE <<>>)
    ELSE <<>>

\* Log.Fatalf("Cannot export registry key '%s': %v", reg.Key, err)
ExportFatalEntry(reg, e) == Entry("fatal", sCannotExport, <<reg.Key, e.msg>>)

\* Log.Fatalf("Cannot import registry file '%s': %v", reg.File, err)
ImportFatalEntry(reg, e) == Entry("fatal", sCannotImport, <<reg.File, e.msg>>)

(* ------------------------------ ExecCmd -------------------------------- *)
\* ExecCmd up to command.Start(): the result is initialised with the options,
\* the two buffers are created and the command line is logged
EnterExecCmd(o, caller) ==
    /\ options' = o
    /\ result' = [Options |-> o, ExitCode |-> 0, Stdout |-> <<>>, Stderr |-> <<>>]
    /\ err' = Nil
    /\ commandStdout' = <<>>
    /\ commandStderr' = <<>>
    /\ child' = NoChild
    /\ pc' = "start"

\* the record of an ExecCmd call: who called, with what, how often
\* command.Start was called and succeeded, its error, and the exit status
\* once command.Wait has returned
CmdRecord(o, caller) ==
    [caller |-> caller, options |-> o, attempts |-> 0, starts |-> 0,
     startErr |-> Nil, done |-> FALSE, code |-> 0]

\* ExecCmd's locals are gone once it has returned
LeaveExecCmd ==
    /\ commandStdout' = <<>>
    /\ commandStderr' = <<>>
    /\ child' = NoChild

\* the backup a started export of ImportRegKey writes
StartedBackups ==
    IF Len(stack) = 2
    THEN {[reg |-> stack[1].reg, file |-> stack[2].reg.File, t |-> clock]}
    ELSE {}

\* mutant: a failed command.Start is not reported, the result is returned
\* with a nil error
ExecStartSwallow ==
    /\ pc = "start"
    /\ \/ /\ child' = [NoChild EXCEPT !.state = "running"]
          /\ cmds' = [cmds EXCEPT ![Len(cmds)] =
                         [@ EXCEPT !.attempts = @ + 1, !.starts = @ + 1]]
          /\ backups' = backups \cup StartedBackups
          /\ pc' = "wait"
          /\ UNCHANGED err
       \/ \E e \in LaunchErrors :
              /\ err' = Nil
              /\ cmds' = [cmds EXCEPT ![Len(cmds)] =
                             [@ EXCEPT !.attempts = @ + 1, !.startErr = e, !.done = TRUE]]
              /\ pc' = "ret"
              /\ UNCHANGED <<child, backups>>
    /\ UNCHANGED <<stack, options, result, commandStdout, commandStderr, clock, files,
                   log, call, ncalls, nout, nfs>>

\* mutant: a failed command.Start is tried again
ExecStartRetry ==
    /\ pc = "start"
    /\ \/ /\ child' = [NoChild EXCEPT !.state = "running"]
          /\ cmds' = [cmds EXCEPT ![Len(cmds)] =
                         [@ EXCEPT !.attempts = @ + 1, !.starts = @ + 1]]
          /\ backups' = backups \cup StartedBackups
          /\ pc' = "wait"
          /\ UNCHANGED err
       \/ \E e \in LaunchErrors :
              /\ err' = e
              /\ cmds' = [cmds EXCEPT ![Len(cmds)] =
                             [@ EXCEPT !.attempts = @ + 1, !.startErr = e, !.done = TRUE]]
              /\ pc' = IF Last(cmds).attempts = 0 THEN "start" ELSE "ret"
              /\ UNCHANGED <<child, backups>>
    /\ UNCHANGED <<stack, options, result, commandStdout, commandStderr, clock, files,
                   log, call, ncalls, nout, nfs>>

\* command.Start(): the child runs, or the launch error is returned with the
\* result as initialised
ExecStart ==
    /\ pc = "start"
    /\ \/ /\ child' = [NoChild EXCEPT !.state = "running"]
          /\ cmds' = [cmds EXCEPT ![Len(cmds)] =
                         [@ EXCEPT !.attempts = @ + 1, !.starts = @ + 1]]
          /\ backups' = backups \cup StartedBackups
          /\ pc' = "wait"
          /\ UNCHANGED err
       \/ \E e \in LaunchErrors :
              /\ err' = e
              /\ cmds' = [cmds EXCEPT ![Len(cmds)] =
                             [@ EXCEPT !.attempts = @ + 1, !.startErr = e, !.done = TRUE]]
              /\ pc' = "ret"
              /\ UNCHANGED <<child, backups>>
    /\ UNCHANGED <<stack, options, result, commandStdout, commandStderr, clock, files,
                   log, call, ncalls, nout, nfs>>

\* mutant: the result is read without waiting for the child to exit
ExecWaitNoBlock ==
    /\ pc = "wait"
    /\ child.state \in {"running", "exited"}
    /\ result' = [result EXCEPT !.ExitCode = child.code,
                                !.Stdout = TrimSpace(commandStdout),
                                !.Stderr = TrimSpace(commandStderr)]
    /\ err' = Nil
    /\ cmds' = [cmds EXCEPT ![Len(cmds)] = [@ EXCEPT !.done = TRUE, !.code = child.code]]
    /\ pc' = "ret"
    /\ UNCHANGED <<stack, options, commandStdout, commandStderr, child, clock, files,
                   log, call, backups, ncalls, nout, nfs>>

\* command.Wait() returns once the child has exited and its streams are
\* copied; the exit code and the trimmed buffers go into the result
ExecWait ==
    /\ pc = "wait"
    /\ child.state = "exited"
    /\ result' = [result EXCEPT !.ExitCode = child.code,
                                !.Stdout = TrimSpace(commandStdout),
                                !.Stderr = TrimSpace(commandStderr)]
    /\ err' = Nil
    /\ cmds' = [cmds EXCEPT ![Len(cmds)] = [@ EXCEPT !.done = TRUE, !.code = child.code]]
    /\ pc' = "ret"
    /\ UNCHANGED <<stack, options, commandStdout, commandStderr, child, clock, files,
                   log, call, backups, ncalls, nout, nfs>>

\* ExecCmd returns its result and its error to main
ExecReturn ==
    /\ pc = "ret"
    /\ stack = <<>>
    /\ pc' = "idle"
    /\ LeaveExecCmd
    /\ UNCHANGED <<stack, options, result, err, clock, files, log, cmds, call, backups,
                   ncalls, nout, nfs>>

\* main calls ExecCmd(o)
CallExecCmd ==
    /\ pc = "idle"
    /\ ncalls < MaxCalls
    /\ \E o \in CmdOpts :
           /\ call' = [fn |-> "ExecCmd", arg |-> o, stat |-> "none"]
           /\ stack' = <<>>
           /\ log' = <<ExecLogEntry(o)>>
           /\ cmds' = <<CmdRecord(o, "main")>>
           /\ EnterExecCmd(o, "main")
    /\ ncalls' = ncalls + 1
    /\ UNCHANGED <<clock, files, backups, nout, nfs>>

(* ---------------------------- the child -------------------------------- *)
\* the running child writes to its stdout or to its stderr
ChildWrite ==
    /\ child.state = "running"
    /\ nout < MaxWrites
    /\ \E c \in OutChunks :
           \/ /\ child' = [child EXCEPT !.out = @ \o c]
              /\ commandStdout' = commandStdout \o c
              /\ UNCHANGED commandStderr
           \/ /\ child' = [child EXCEPT !.err = @ \o c]
              /\ commandStderr' = commandStderr \o c
              /\ UNCHANGED commandStdout
    /\ nout' = nout + 1
    /\ UNCHANGED <<pc, stack, options, result, err, clock, files, log, cmds, call,
                   backups, ncalls, nfs>>

\* the running child terminates with an exit status
ChildExit ==
    /\ child.state = "running"
    /\ \E code \in 0..MaxExit : child' = [child EXCEPT !.state = "exited", !.code = code]
    /\ UNCHANGED <<pc, stack, options, result, err, commandStdout, commandStderr, clock,
                   files, log, cmds, call, backups, ncalls, nout, nfs>>

(* --------------------------- the environment --------------------------- *)
\* the wall clock moves on; the run stays within the day.  The program reads
\* the clock only where ImportRegKey is entered, so the moves are taken
\* between the calls
Tick ==
    /\ pc = "idle"
    /\ clock < MaxClock
    /\ SecondOfDay(clock + 1) < 86400
    /\ clock' = clock + 1
    /\ UNCHANGED <<pc, stack, options, result, err, commandStdout, commandStderr, child,
                   files, log, cmds, call, backups, ncalls, nout, nfs>>

\* another program creates or removes a file.  The program looks at the file
\* system only in the os.Stat of ImportRegKey, so the changes are taken there
FsChange ==
    /\ pc = "stat"
    /\ nfs < MaxFsOps
    /\ \E f \in Files : files' \in {files \cup {f}, files \ {f}} \ {files}
    /\ nfs' = nfs + 1
    /\ UNCHANGED <<pc, stack, options, result, err, commandStdout, commandStderr, child,
                   clock, log, cmds, call, backups, ncalls, nout>>

(* ---------------------------- the registry ----------------------------- *)
\* the CmdOptions ExportRegKey builds
ExportOptions(reg) ==
    [Command |-> sReg,
     Args |-> <<sExport, reg.Key, reg.File, sYes, sRegArch \o reg.Arch>>,
     WorkingDir |-> <<>>,
     HideWindow |-> TRUE]

\* the CmdOptions ImportRegKey builds
ImportOptions(reg) ==
    [Command |-> sReg,
     Args |-> <<sImport, reg.File, sRegArch \o reg.Arch>>,
     WorkingDir |-> <<>>,
     HideWindow |-> TRUE]

\* mutant: the backup is written over the file that is to be imported
BackupRegInPlace(reg, t) == [Key |-> reg.Key, Arch |-> reg.Arch, File |-> reg.File]

\* the RegExportImport ImportRegKey passes to ExportRegKey when the clock is at t
BackupReg(reg, t) ==
    [Key |-> reg.Key, Arch |-> reg.Arch, File |-> reg.File \o sDot \o Format(t)]

Frame(fn, reg) == [fn |-> fn, reg |-> reg]

\* main calls ExportRegKey(reg): ExecCmd is entered with the export options
CallExportRegKey ==
    /\ pc = "idle"
    /\ ncalls < MaxCalls
    /\ \E reg \in Regs :
           /\ call' = [fn |-> "ExportRegKey", arg |-> reg, stat |-> "none"]
           /\ stack' = <<Frame("ExportRegKey", reg)>>
           /\ log' = <<ExecLogEntry(ExportOptions(reg))>>
           /\ cmds' = <<CmdRecord(ExportOptions(reg), "ExportRegKey")>>
           /\ EnterExecCmd(ExportOptions(reg), "ExportRegKey")
    /\ ncalls' = ncalls + 1
    /\ UNCHANGED <<clock, files, backups, nout, nfs>>

\* main calls ImportRegKey(reg): the clock is read and ExportRegKey is called
\* with the backup file
CallImportRegKey ==
    /\ pc = "idle"
    /\ ncalls < MaxCalls
    /\ \E reg \in Regs :
           /\ call' = [fn |-> "ImportRegKey", arg |-> reg, stat |-> "none"]
           /\ stack' = <<Frame("ImportRegKey", reg),
                         Frame("ExportRegKey", BackupReg(reg, clock))>>
           /\ log' = <<ExecLogEntry(ExportOptions(BackupReg(reg, clock)))>>
           /\ cmds' = <<CmdRecord(ExportOptions(BackupReg(reg, clock)), "ExportRegKey")>>
           /\ EnterExecCmd(ExportOptions(BackupReg(reg, clock)), "ExportRegKey")
    /\ ncalls' = ncalls + 1
    /\ UNCHANGED <<clock, files, backups, nout, nfs>>

\* mutant: a launch error of the export is logged as an error and tolerated
ExportAfterExecSoft ==
    /\ pc = "ret"
    /\ stack # <<>>
    /\ Last(stack).fn = "ExportRegKey"
    /\ log' = IF ~err.isNil
              THEN Append(log, [ExportFatalEntry(Last(stack).reg, err)
                                    EXCEPT !.level = "error"])
              ELSE log \o ExitCodeEntries(result)
    /\ stack' = Pop(stack)
    /\ pc' = IF Pop(stack) = <<>> THEN "idle" ELSE "stat"
    /\ LeaveExecCmd
    /\ UNCHANGED <<options, result, err, clock, files, cmds, call, backups, ncalls,
                   nout, nfs>>

\* ExportRegKey after ExecCmd: a launch error is fatal, a non-zero exit code
\* is logged; then ExportRegKey returns, to main or into ImportRegKey
ExportAfterExec ==
    /\ pc = "ret"
    /\ stack # <<>>
    /\ Last(stack).fn = "ExportRegKey"
    /\ IF ~err.isNil
       THEN /\ log' = Append(log, ExportFatalEntry(Last(stack).reg, err))
            /\ pc' = "exited"
            /\ UNCHANGED stack
       ELSE /\ log' = log \o ExitCodeEntries(result)
            /\ stack' = Pop(stack)
            /\ pc' = IF Pop(stack) = <<>> THEN "idle" ELSE "stat"
    /\ LeaveExecCmd
    /\ UNCHANGED <<options, result, err, clock, files, cmds, call, backups, ncalls,
                   nout, nfs>>

\* mutant: the import is started without looking for the file
ImportStatNoCheck ==
    /\ pc = "stat"
    /\ Last(stack).fn = "ImportRegKey"
    /\ call' = [call EXCEPT !.stat = IF Last(stack).reg.File \notin files
                                     THEN "missing" ELSE "found"]
    /\ log' = Append(log, ExecLogEntry(ImportOptions(Last(stack).reg)))
    /\ cmds' = Append(cmds, CmdRecord(ImportOptions(Last(stack).reg), "ImportRegKey"))
    /\ EnterExecCmd(ImportOptions(Last(stack).reg), "ImportRegKey")
    /\ UNCHANGED <<stack, clock, files, backups, ncalls, nout, nfs>>

\* mutant: the import is skipped when the backup ended with a non-zero exit code
ImportStatStrict ==
    /\ pc = "stat"
    /\ Last(stack).fn = "ImportRegKey"
    /\ call' = [call EXCEPT !.stat = IF Last(stack).reg.File \notin files
                                     THEN "missing" ELSE "found"]
    /\ IF Last(stack).reg.File \notin files \/ result.ExitCode # 0
       THEN /\ stack' = Pop(stack)
            /\ pc' = "idle"
            /\ UNCHANGED <<options, result, err, commandStdout, commandStderr, child,
                           log, cmds>>
       ELSE /\ log' = Append(log, ExecLogEntry(ImportOptions(Last(stack).reg)))
            /\ cmds' = Append(cmds, CmdRecord(ImportOptions(Last(stack).reg),
                                              "ImportRegKey"))
            /\ EnterExecCmd(ImportOptions(Last(stack).reg), "ImportRegKey")
            /\ UNCHANGED stack
    /\ UNCHANGED <<clock, files, backups, ncalls, nout, nfs>>

\* ImportRegKey after the backup: without the file it returns, with it
\* ExecCmd is entered with the import options
ImportStat ==
    /\ pc = "stat"
    /\ Last(stack).fn = "ImportRegKey"
    /\ IF Last(stack).reg.File \notin files
       THEN /\ call' = [call EXCEPT !.stat = "missing"]
            /\ stack' = Pop(stack)
            /\ pc' = "idle"
            /\ UNCHANGED <<options, result, err, commandStdout, commandStderr, child,
                           log, cmds>>
       ELSE /\ call' = [call EXCEPT !.stat = "found"]
            /\ log' = Append(log, ExecLogEntry(ImportOptions(Last(stack).reg)))
            /\ cmds' = Append(cmds, CmdRecord(ImportOptions(Last(stack).reg),
                                              "ImportRegKey"))
            /\ EnterExecCmd(ImportOptions(Last(stack).reg), "ImportRegKey")
            /\ UNCHANGED stack
    /\ UNCHANGED <<clock, files, backups, ncalls, nout, nfs>>

\* mutant: a non-zero exit code of the import is fatal
ImportAfterExecStrict ==
    /\ pc = "ret"
    /\ stack # <<>>
    /\ Last(stack).fn = "ImportRegKey"
    /\ IF ~err.isNil \/ result.ExitCode # 0
       THEN /\ log' = Append(log, ImportFatalEntry(Last(stack).reg, err))
            /\ pc' = "exited"
            /\ UNCHANGED stack
       ELSE /\ log' = log \o ExitCodeEntries(result)
            /\ stack' = Pop(stack)
            /\ pc' = "idle"
    /\ LeaveExecCmd
    /\ UNCHANGED <<options, result, err, clock, files, cmds, call, backups, ncalls,
                   nout, nfs>>

\* ImportRegKey after ExecCmd: a launch error is fatal, a non-zero exit code
\* is logged; then ImportRegKey returns to main
ImportAfterExec ==
    /\ pc = "ret"
    /\ stack # <<>>
    /\ Last(stack).fn = "ImportRegKey"
    /\ IF ~err.isNil
       THEN /\ log' = Append(log, ImportFatalEntry(Last(stack).reg, err))
            /\ pc' = "exited"
            /\ UNCHANGED stack
       ELSE /\ log' = log \o ExitCodeEntries(result)
            /\ stack' = Pop(stack)
            /\ pc' = "idle"
    /\ LeaveExecCmd
    /\ UNCHANGED <<options, result, err, clock, files, cmds, call, backups, ncalls,
                   nout, nfs>>

(* --------------------------- specification ----------------------------- *)
Next ==
    \/ CallExecCmd
    \/ CallExportRegKey
    \/ CallImportRegKey
    \/ ExecStart
    \/ ExecWait
    \/ ExecReturn
    \/ ExportAfterExec
    \/ ImportStat
    \/ ImportAfterExec
    \/ ChildWrite
    \/ ChildExit
    \/ Tick
    \/ FsChange

Spec == Init /\ [][Next]_vars

(* ------------------------------ properties ----------------------------- *)
IsExport(c) ==
    /\ c.options.Command = sReg
    /\ Len(c.options.Args) = 5
    /\ c.options.Args[1] = sExport
    /\ c.options.Args[4] = sYes

IsImport(c) ==
    /\ c.options.Command = sReg
    /\ Len(c.options.Args) = 3
    /\ c.options.Args[1] = sImport

\* c was started and its child has terminated
Terminated(c) == c.attempts = 1 /\ c.starts = 1 /\ c.done

\* command.Start failed for c
LaunchFailed(c) == ~c.startErr.isNil

DigitSet == { DigitChars[i] : i \in 1..10 }

\* file is base, a dot and fourteen decimal digits
IsStamped(file, base) ==
    /\ Len(file) = Len(base) + 15
    /\ SubSeq(file, 1, Len(base)) = base
    /\ file[Len(base) + 1] = "."
    /\ \A i \in (Len(base) + 2)..Len(file) : file[i] \in DigitSet

AllSpace(s) == \A i \in 1..Len(s) : s[i] \in SpaceChars

\* r is w without the white space w begins and ends with
IsTrimOf(r, w) ==
    /\ r = <<>> \/ (r[1] \notin SpaceChars /\ r[Len(r)] \notin SpaceChars)
    /\ \E i \in 0..Len(w) :
           /\ i + Len(r) <= Len(w)
           /\ AllSpace(SubSeq(w, 1, i))
           /\ SubSeq(w, i + 1, i + Len(r)) = r
           /\ AllSpace(SubSeq(w, i + Len(r) + 1, Len(w)))

NoFatal == \A i \in 1..Len(log) : log[i].level # "fatal"

\* the Log.Errorf call that logs the exit code, for codes of one digit
CodeEntry(code) == [level |-> "error", format |-> <<DigitChars[code + 1]>>, args |-> <<>>]

\* C1: in every call of ImportRegKey(reg) the first command is 'reg export'
\* of reg.Key in the view reg.Arch into reg.File followed by a dot and
\* fourteen digits, a file other than reg.File; a 'reg import' is invoked
\* only after that export was started and has terminated, and it goes to the
\* same architecture view.
C1_ExportBeforeImport ==
    call.fn = "ImportRegKey" =>
        /\ Len(cmds) >= 1
        /\ IsExport(cmds[1])
        /\ cmds[1].options.Args[2] = call.arg.Key
        /\ cmds[1].options.Args[5] = sRegArch \o call.arg.Arch
        /\ IsStamped(cmds[1].options.Args[3], call.arg.File)
        /\ cmds[1].options.Args[3] # call.arg.File
        /\ \A j \in 1..Len(cmds) :
               IsImport(cmds[j]) =>
                   /\ j > 1
                   /\ Terminated(cmds[1])
                   /\ cmds[j].options.Args[2] = call.arg.File
                   /\ cmds[j].options.Args[3] = cmds[1].options.Args[5]

C1_Witness ==
    /\ call.fn = "ImportRegKey"
    /\ Len(cmds) = 2
    /\ IsImport(cmds[2])
    /\ cmds[1].code # 0

\* C2: a call of ImportRegKey that begins at a later clock value than an
\* earlier call of ImportRegKey with the same Key, Arch and File exports its
\* backup to a file other than the one the earlier call exported to.
C2_BackupsDistinct ==
    (pc = "start" /\ call.fn = "ImportRegKey" /\ Len(cmds) = 1) =>
        \A b \in backups :
            (b.reg = call.arg /\ b.t < clock) => b.file # cmds[1].options.Args[3]

\* C3: when command.Start fails, ExecCmd returns that error, and the result
\* it returns carries no exit code, stdout or stderr of a run: no child was
\* started and the three fields are as initialised.
C3_LaunchErrorNoResult ==
    (pc = "ret" /\ (LaunchFailed(Last(cmds)) \/ ~err.isNil)) =>
        /\ ~err.isNil
        /\ err = Last(cmds).startErr
        /\ Last(cmds).starts = 0
        /\ child.state = "none"
        /\ result.ExitCode = 0
        /\ result.Stdout = <<>>
        /\ result.Stderr = <<>>

C3_Witness ==
    /\ pc = "ret"
    /\ call.fn = "ExecCmd"
    /\ LaunchFailed(Last(cmds))
    /\ result.Options = call.arg
    /\ result.Options.Args # <<>>

\* C4: when os.Stat fails on reg.File in ImportRegKey(reg), the backup
\* export having been started, ImportRegKey has returned to main with no
\* 'reg import' invoked and no fatal log entry.
C4_MissingFileSkipsImport ==
    (call.fn = "ImportRegKey" /\ call.stat = "missing") =>
        /\ pc = "idle"
        /\ stack = <<>>
        /\ Len(cmds) = 1
        /\ ~IsImport(cmds[1])
        /\ NoFatal

C4_Witness ==
    /\ call.fn = "ImportRegKey"
    /\ call.stat = "missing"
    /\ Terminated(cmds[1])

\* C5: when the 'reg import' of ImportRegKey ends with a non-zero exit code,
\* ImportRegKey returns to main: the process is not terminated, no fatal
\* entry is logged, and the last Log.Errorf calls log the exit code and, when
\* it is not empty, the captured stderr.
C5_ImportExitCodeIsSoft ==
    (/\ call.fn = "ImportRegKey"
     /\ Len(cmds) = 2
     /\ Terminated(cmds[2])
     /\ cmds[2].code # 0) =>
        /\ pc \in {"ret", "idle"}
        /\ NoFatal
        /\ pc = "idle" =>
               /\ stack = <<>>
               /\ IF result.Stderr = <<>>
                  THEN Last(log) = CodeEntry(cmds[2].code)
                  ELSE /\ Len(log) >= 2
                       /\ log[Len(log) - 1] = CodeEntry(cmds[2].code)
                       /\ Last(log).level = "error"
                       /\ SubSeq(Last(log).format, 1, Len(result.Stderr)) = result.Stderr

C5_Witness ==
    /\ call.fn = "ImportRegKey"
    /\ Len(cmds) = 2
    /\ Terminated(cmds[2])
    /\ cmds[2].code # 0
    /\ pc = "idle"
    /\ result.Stderr # <<>>

\* C6: when command.Start fails for the 'reg' command of ExportRegKey or of
\* ImportRegKey, no further command is invoked and the operation ends in the
\* fatal state: the last log entry is the fatal one and the process has
\* terminated.
C6_LaunchFailureIsFatal ==
    /\ \A i \in 1..Len(cmds) :
           (cmds[i].caller # "main" /\ LaunchFailed(cmds[i])) =>
               /\ i = Len(cmds)
               /\ pc \in {"ret", "exited"}
    /\ pc = "exited" <=>
           /\ Len(log) > 0
           /\ Last(log).level = "fatal"

C6_Witness ==
    /\ pc = "exited"
    /\ call.fn = "ImportRegKey"
    /\ Len(cmds) = 1
    /\ LaunchFailed(cmds[1])
    /\ call.arg.File \in files

\* C7: command.Start is called at most once in a call of ExecCmd and starts
\* at most one child; a call of ExecCmd from main is one ExecCmd, a call of
\* ExportRegKey invokes one export, a call of ImportRegKey invokes one export
\* and then at most one import.
C7_NoRetries ==
    /\ \A i \in 1..Len(cmds) :
           /\ cmds[i].attempts <= 1
           /\ cmds[i].starts <= cmds[i].attempts
           /\ i < Len(cmds) => cmds[i].attempts = 1
    /\ (pc \in {"idle", "exited"} /\ call.fn # "none") => Last(cmds).attempts = 1
    /\ call.fn = "ExecCmd" => Len(cmds) = 1
    /\ call.fn = "ExportRegKey" => (Len(cmds) = 1 /\ IsExport(cmds[1]))
    /\ call.fn = "ImportRegKey" =>
           /\ Len(cmds) \in {1, 2}
           /\ IsExport(cmds[1])
           /\ Len(cmds) = 2 => IsImport(cmds[2])

C7_Witness ==
    /\ call.fn = "ImportRegKey"
    /\ Len(cmds) = 2
    /\ pc = "idle"
    /\ ncalls = MaxCalls

\* C8: when command.Start succeeds, ExecCmd returns a nil error and a result
\* whose Options are the options it was given, whose ExitCode is the status
\* the child exited with, and whose Stdout and Stderr are what the child
\* wrote to the stream without the white space at its two ends.
C8_ResultOfStartedCommand ==
    (pc = "ret" /\ Last(cmds).starts = 1) =>
        /\ err.isNil
        /\ result.Options = Last(cmds).options
        /\ call.fn = "ExecCmd" => result.Options = call.arg
        /\ child.state = "exited"
        /\ result.ExitCode = child.code
        /\ IsTrimOf(result.Stdout, child.out)
        /\ IsTrimOf(result.Stderr, child.err)

C8_Witness ==
    /\ pc = "ret"
    /\ Last(cmds).starts = 1
    /\ result.ExitCode # 0
    /\ result.Stdout # <<>>
    /\ Len(result.Stdout) < Len(child.out)
    /\ IsSpace(Last(child.out))

\* C9: while the child runs, ExecCmd is blocked in command.Wait and its
\* result holds no exit code and no output; ExecCmd has returned from a
\* started command only with the child exited.
C9_NoResultWhileRunning ==
    /\ child.state = "running" =>
           /\ pc = "wait"
           /\ result.ExitCode = 0
           /\ result.Stdout = <<>>
           /\ result.Stderr = <<>>
    /\ (pc = "ret" /\ Last(cmds).starts = 1) => child.state = "exited"
    /\ pc = "wait" => child.state \in {"running", "exited"}

C9_Witness ==
    /\ child.state = "running"
    /\ commandStdout # <<>>
    /\ commandStderr # <<>>

\* C10: in ImportRegKey(reg) the 'reg import' of reg.File is invoked exactly
\* when os.Stat finds reg.File, whatever exit code the backup export ended
\* with; a non-zero exit code of the export is logged before that.
C10_ImportDespiteFailedBackup ==
    (call.fn = "ImportRegKey" /\ call.stat # "none") =>
        /\ call.stat = "found" <=> Len(cmds) = 2
        /\ call.stat = "found" =>
               /\ IsImport(cmds[2])
               /\ cmds[2].options.Args[2] = call.arg.File
               /\ cmds[1].code # 0 => (Len(log) >= 3 /\ log[2] = CodeEntry(cmds[1].code))

C10_Witness ==
    /\ call.fn = "ImportRegKey"
    /\ call.stat = "found"
    /\ Terminated(cmds[1])
    /\ cmds[1].code # 0
    /\ Len(cmds) = 2
    /\ cmds[2].attempts = 1

====
